---- MODULE Spec2Model ----
(***************************************************************************)
(* State-machine model of the stdb-player library: the session-to-player   *)
(* identity lifecycle (player/repository.rs) and the VIP relationship      *)
(* reconciliation (vip/repository.rs).  Every reducer runs as one          *)
(* transaction of the host store: an action computes the reducer's result  *)
(* on a copy of the tables and commits it only when the reducer returns    *)
(* Ok; an Err or a panic rolls the whole transaction back.                 *)
(***************************************************************************)
EXTENDS Integers, Sequences, FiniteSets, TLC

VARIABLES
    stdb_own_player_session_v1,  \* table: rows [session_id, player_id, is_online]
    stdb_own_player_v1,          \* table: rows [player_id, display_name, avatar, created_at, signed_in_at, last_signed_out_at]
    stdb_pub_player_card_v1,     \* table: rows [player_id, display_name, avatar]
    stdb_own_vip_v1,             \* table: rows [vip_id, sender_id, receiver_id, tag, status, created_at]
    vip_id_seq,                  \* the #[auto_inc] sequence of vip_id: the last value handed out
    timestamp,                   \* ctx.timestamp of the next reducer call, in microseconds
    uuid_validator,              \* which body validate_uuid has: "unimplemented" (the source) or "implemented"
    requested,                   \* history: the <<sender_id, receiver_id>> of every committed insert_vip
    common_call                  \* the last call of a stdb-common helper: [fn, input, output]

vars == << stdb_own_player_session_v1, stdb_own_player_v1, stdb_pub_player_card_v1,
           stdb_own_vip_v1, vip_id_seq, timestamp, uuid_validator, requested,
           common_call >>

tables == << stdb_own_player_session_v1, stdb_own_player_v1, stdb_pub_player_card_v1,
             stdb_own_vip_v1, vip_id_seq >>

(***************************************************************************)
(* Bounds of the model.                                                    *)
(***************************************************************************)
\* The clock runs from one millisecond to MaxMicros in steps of TickMicros.
TickMicros == 500
MaxMicros == 1500
\* The VIP table holds at most MaxVipRows rows: a call that would add more is not taken.
MaxVipRows == 4

\* Connection identities (ctx.sender).
Identities == {"i1", "i2"}
\* Outcomes of the random bytes that fill a v7 identifier.
RandomV7 == {0, 1}
\* Outcomes of the random bytes that fill a v4 identifier.
RandomV4 == {0, 1}

(***************************************************************************)
(* Option<T> is a set with at most one element.                            *)
(***************************************************************************)
None == {}
Some(v) == {v}
unwrap(opt) == CHOOSE v \in opt : TRUE
is_some(opt) == opt # {}

(***************************************************************************)
(* stdb-common: identifiers, validation.                                   *)
(***************************************************************************)
MicrosPerMilli == 1000

\* A u8 is a number in 0..255; `a & b` and `a | b` are computed bit by bit.
BitsPerByte == 8
RECURSIVE pow2(_)
pow2(n) == IF n = 0 THEN 1 ELSE 2 * pow2(n - 1)
bit(a, i) == (a \div pow2(i)) % 2
RECURSIVE bitand(_, _, _)
bitand(a, b, i) ==
    IF i = BitsPerByte THEN 0
    ELSE pow2(i) * (bit(a, i) * bit(b, i)) + bitand(a, b, i + 1)
RECURSIVE bitor(_, _, _)
bitor(a, b, i) ==
    IF i = BitsPerByte THEN 0
    ELSE pow2(i) * (IF bit(a, i) + bit(b, i) > 0 THEN 1 ELSE 0) + bitor(a, b, i + 1)
BitAnd(a, b) == bitand(a, b, 0)
BitOr(a, b) == bitor(a, b, 0)

\* i64 `/` truncates toward zero.
i64_div(a, b) == IF a >= 0 THEN a \div b ELSE -((-a) \div b)

\* `n as u64` followed by u64::to_be_bytes: the eight bytes, most significant
\* first, of the two's complement of a number of at most 31 bits.
as_u64_be_bytes(n) ==
    [i \in 0..7 |-> IF i < 4 THEN (IF n < 0 THEN 255 ELSE 0)
                    ELSE (n \div pow2(BitsPerByte * (7 - i))) % 256]

\* u64::to_be_bytes(timestamp_millis << 16): the two high bytes are shifted out.
shl_16_to_be_bytes(timestamp_millis) ==
    [i \in 0..7 |-> IF i + 2 <= 7 THEN timestamp_millis[i + 2] ELSE 0]

\* Mutant of inner_new_uuid_v4: the variant bits of byte 8 are not set.
inner_new_uuid_v4_no_variant(rng) ==
    LET uuid_bytes == [index \in 0..15 |-> rng[index]]
    IN [uuid_bytes EXCEPT ![6] = BitOr(BitAnd(@, 15), 64)]

\* rng is the closure: rng[k] is the byte its k-th call returns (k from 0).
inner_new_uuid_v4(rng) ==
    LET uuid_bytes == [index \in 0..15 |-> rng[index]]
    IN [uuid_bytes EXCEPT ![6] = BitOr(BitAnd(@, 15), 64),
                          ![8] = BitOr(BitAnd(@, 63), 128)]

\* timestamp_millis is a u64, given by its eight big-endian bytes.
inner_new_uuid_v7(timestamp_millis, rng) ==
    LET be == shl_16_to_be_bytes(timestamp_millis)
        uuid_bytes == [index \in 0..15 |-> IF index < 6 THEN be[index] ELSE rng[index - 6]]
    IN [uuid_bytes EXCEPT ![6] = BitOr(BitAnd(@, 15), 112),
                          ![8] = BitOr(BitAnd(@, 63), 128)]

HexDigits == << "0", "1", "2", "3", "4", "5", "6", "7",
                "8", "9", "a", "b", "c", "d", "e", "f" >>
\* {:02x} of one byte.
hex(byte) == HexDigits[(byte \div 16) + 1] \o HexDigits[(byte % 16) + 1]
RECURSIVE hex_bytes(_, _, _)
hex_bytes(uuid_bytes, from, to) ==
    IF from > to THEN "" ELSE hex(uuid_bytes[from]) \o hex_bytes(uuid_bytes, from + 1, to)

\* format!("{:08x}-{:04x}-{:04x}-{:04x}-{:012x}", ...) of the big-endian groups.
uuid_to_string(uuid_bytes) ==
    hex_bytes(uuid_bytes, 0, 3) \o "-" \o hex_bytes(uuid_bytes, 4, 5) \o "-"
        \o hex_bytes(uuid_bytes, 6, 7) \o "-" \o hex_bytes(uuid_bytes, 8, 9) \o "-"
        \o hex_bytes(uuid_bytes, 10, 15)

\* In the state machine ctx.random() yields the same byte `random` on every call.
constant_rng(random) == [k \in 0..15 |-> random]

\* The identifiers of the clock readings and random bytes of the state machine,
\* computed once.
ClockMillis == 0..((MaxMicros + TickMicros) \div MicrosPerMilli)
UuidV4Text ==
    [random \in RandomV4 \cup RandomV7 |->
        uuid_to_string(inner_new_uuid_v4(constant_rng(random)))]
UuidV7Text ==
    [millis \in ClockMillis, random \in RandomV4 \cup RandomV7 |->
        uuid_to_string(inner_new_uuid_v7(as_u64_be_bytes(millis), constant_rng(random)))]

new_uuid_v4(random) ==
    IF random \in RandomV4 \cup RandomV7
    THEN UuidV4Text[random]
    ELSE uuid_to_string(inner_new_uuid_v4(constant_rng(random)))

new_uuid_v7(now, random) ==
    LET millis == i64_div(now, MicrosPerMilli)
    IN IF millis \in ClockMillis /\ random \in RandomV4 \cup RandomV7
       THEN UuidV7Text[millis, random]
       ELSE uuid_to_string(inner_new_uuid_v7(as_u64_be_bytes(millis), constant_rng(random)))

\* Mutant of validate_str: the upper bound is exclusive.
validate_str_exclusive_max(value, min_length, max_length) ==
    IF min_length > 0 /\ Len(value) = 0 THEN "RequiredField"
    ELSE IF Len(value) < min_length THEN "FieldTooSmall"
    ELSE IF Len(value) >= max_length THEN "FieldTooLarge"
    ELSE "Ok"

validate_str(value, min_length, max_length) ==
    IF min_length > 0 /\ Len(value) = 0 THEN "RequiredField"
    ELSE IF Len(value) < min_length THEN "FieldTooSmall"
    ELSE IF Len(value) > max_length THEN "FieldTooLarge"
    ELSE "Ok"

\* ValidationError::* .map_validation(): every validation failure is a ServiceError::Validation.
service_result(validation) ==
    IF validation \in {"Ok", "Panic"} THEN validation ELSE "Validation"

\* The identifiers the documented checks of validate_uuid would reject.
UuidNil == "00000000-0000-0000-0000-000000000000"
UuidMax == "ffffffff-ffff-ffff-ffff-ffffffffffff"
UuidTextLen == 36

\* The validator its comment describes ("validate size, dashes, and if it's not
\* nil/max"): the body the source does not have.
validate_uuid_intended(uuid) ==
    IF Len(uuid) = UuidTextLen /\ uuid \notin {UuidNil, UuidMax} THEN "Ok" ELSE "InvalidUuid"

\* The source's body is unimplemented!(...): every call panics.
validate_uuid(uuid) ==
    IF uuid_validator = "unimplemented" THEN "Panic" ELSE validate_uuid_intended(uuid)

(***************************************************************************)
(* stdb-common: duration.rs.  A Timestamp is an i64 of microseconds since   *)
(* the epoch, wider than the integers of TLC: it is held as the pair       *)
(* [secs, micros] with micros_since_epoch = secs * MicrosPerSec + micros,  *)
(* where secs is the quotient and micros the remainder of the truncating   *)
(* i64 division by MicrosPerSec (both carry the sign of the timestamp).    *)
(***************************************************************************)
MicrosPerSec == 1000000
SecondsInADay == 24 * 60 * 60

\* i64 `%`: the remainder has the sign of the dividend.
i64_rem(a, b) == IF a >= 0 THEN a % b ELSE -((-a) % b)

\* self.to_micros_since_unix_epoch() / micros_per_sec
to_secs_since_unix_epoch(self) == self.secs

into_midnight(self) ==
    LET secs_since_epoch == to_secs_since_unix_epoch(self)
        secs_today == i64_rem(secs_since_epoch, SecondsInADay)
    IN [secs |-> secs_since_epoch - secs_today, micros |-> 0]

(***************************************************************************)
(* The tables of one transaction: reducers work on this record and the     *)
(* action commits it.                                                      *)
(***************************************************************************)
Db == [ sessions |-> stdb_own_player_session_v1,
        players  |-> stdb_own_player_v1,
        cards    |-> stdb_pub_player_card_v1,
        vips     |-> stdb_own_vip_v1,
        vip_seq  |-> vip_id_seq ]

UNIX_EPOCH == 0

(***************************************************************************)
(* Host store: insert-or-update on the primary key, with the tables'       *)
(* #[unique] and #[auto_inc] columns.                                      *)
(***************************************************************************)
\* stdb_own_player_session_v1().session_id().try_insert_or_update(row)
session_try_insert_or_update(db, row) ==
    [ result |-> "Ok",
      db |-> [db EXCEPT !.sessions = {s \in @ : s.session_id # row.session_id} \cup {row}] ]

\* stdb_own_player_v1().player_id().update(row): replaces the row with this key.
player_update(db, row) ==
    [db EXCEPT !.players = {p \in @ : p.player_id # row.player_id} \cup {row}]

\* Mutant of player_try_insert_or_update: display_name is not checked.
player_try_insert_or_update_not_unique(db, row) ==
    [result |-> "Ok", db |-> player_update(db, row)]

\* stdb_own_player_v1().player_id().try_insert_or_update(row): display_name is #[unique].
player_try_insert_or_update(db, row) ==
    IF \E p \in db.players : p.player_id # row.player_id /\ p.display_name = row.display_name
    THEN [result |-> "Conflict", db |-> db]
    ELSE [result |-> "Ok", db |-> player_update(db, row)]

\* stdb_pub_player_card_v1().player_id().try_insert_or_update(card)
card_try_insert_or_update(db, row) ==
    [ result |-> "Ok",
      db |-> [db EXCEPT !.cards = {c \in @ : c.player_id # row.player_id} \cup {row}] ]

(***************************************************************************)
(* player/repository.rs                                                    *)
(***************************************************************************)
find_session(db, session_id) == {s \in db.sessions : s.session_id = session_id}

find_player(db, player_id) == {p \in db.players : p.player_id = player_id}

find_player_by_display_name(db, display_name) ==
    {p \in db.players : p.display_name = display_name}

find_player_card(db, player_id) == {c \in db.cards : c.player_id = player_id}

\* From<StdbOwnPlayerV1> for StdbPubPlayerCardV1
card_from(player) ==
    [ player_id |-> player.player_id,
      display_name |-> player.display_name,
      avatar |-> player.avatar ]

\* The names build_random_display_name can draw ("{color} {adjective} {noun}").
RandomDisplayNames == {"Red Swift Wolf", "Blue Brave Oak"}

MaxDisplayNameAttempts == 12

\* The values build_unique_display_name can return, over every random source: a
\* drawn name no Player holds returns at once; a drawn name that collides goes to
\* the next attempt; after the last attempt the text of a v4 identifier.
RECURSIVE unique_display_names(_, _)
unique_display_names(db, attempts_left) ==
    IF attempts_left = 0
    THEN {new_uuid_v4(r) : r \in RandomV4}
    ELSE {n \in RandomDisplayNames : ~is_some(find_player_by_display_name(db, n))}
         \cup (IF \E n \in RandomDisplayNames : is_some(find_player_by_display_name(db, n))
               THEN unique_display_names(db, attempts_left - 1)
               ELSE {})

build_unique_display_name(db) == unique_display_names(db, MaxDisplayNameAttempts)

\* The loop of build_unique_display_name on one outcome of the random source:
\* draws[i] is the name build_random_display_name returns on the i-th pass, random
\* the bytes of the fallback identifier.  Returns the name and the passes made.
RECURSIVE build_unique_display_name_loop(_, _, _, _)
build_unique_display_name_loop(db, draws, attempt, random) ==
    IF attempt > MaxDisplayNameAttempts
    THEN [display_name |-> new_uuid_v4(random), draws |-> MaxDisplayNameAttempts]
    ELSE IF ~is_some(find_player_by_display_name(db, draws[attempt]))
    THEN [display_name |-> draws[attempt], draws |-> attempt]
    ELSE build_unique_display_name_loop(db, draws, attempt + 1, random)

\* Mutant of build_unique_display_name_drawn: the first draw is returned unchecked.
build_unique_display_name_first_draw(db, draws, random) ==
    [display_name |-> draws[1], draws |-> 1]

build_unique_display_name_drawn(db, draws, random) ==
    build_unique_display_name_loop(db, draws, 1, random)

\* Outcomes of the MaxDisplayNameAttempts draws of one call: k draws of one name,
\* then another name for the rest.
DrawSequences ==
    {[i \in 1..MaxDisplayNameAttempts |-> IF i <= k THEN t ELSE u] :
        k \in 0..MaxDisplayNameAttempts, t \in RandomDisplayNames, u \in RandomDisplayNames}

DisplayNameMin == 8
DisplayNameMax == 64
AvatarMin == 8
AvatarMax == 64

\* Mutant of upsert_player_card: the Public Card is not written.
upsert_player_card_skips_card(db, player_id, display_name, avatar, now) ==
    IF validate_str(display_name, DisplayNameMin, DisplayNameMax) # "Ok"
       \/ validate_str(avatar, AvatarMin, AvatarMax) # "Ok"
    THEN [result |-> "Validation", db |-> db, player |-> None]
    ELSE
      LET found == find_player(db, player_id)
          player == IF is_some(found)
                    THEN [unwrap(found) EXCEPT !.display_name = display_name, !.avatar = avatar]
                    ELSE [ player_id |-> player_id,
                           display_name |-> display_name,
                           avatar |-> avatar,
                           created_at |-> now,
                           signed_in_at |-> now,
                           last_signed_out_at |-> UNIX_EPOCH ]
          w1 == player_try_insert_or_update(db, player)
      IN IF w1.result # "Ok"
         THEN [result |-> "Conflict", db |-> db, player |-> None]
         ELSE [result |-> "Ok", db |-> w1.db, player |-> Some(player)]

\* Mutant of upsert_player_card: the Public Card is written before the Player, and
\* a refused Player write returns with the card already written.
upsert_player_card_card_first(db, player_id, display_name, avatar, now) ==
    IF validate_str(display_name, DisplayNameMin, DisplayNameMax) # "Ok"
       \/ validate_str(avatar, AvatarMin, AvatarMax) # "Ok"
    THEN [result |-> "Validation", db |-> db, player |-> None]
    ELSE
      LET found == find_player(db, player_id)
          player == IF is_some(found)
                    THEN [unwrap(found) EXCEPT !.display_name = display_name, !.avatar = avatar]
                    ELSE [ player_id |-> player_id,
                           display_name |-> display_name,
                           avatar |-> avatar,
                           created_at |-> now,
                           signed_in_at |-> now,
                           last_signed_out_at |-> UNIX_EPOCH ]
          w1 == card_try_insert_or_update(db, card_from(player))
          w2 == player_try_insert_or_update(w1.db, player)
      IN IF w2.result # "Ok"
         THEN [result |-> "Conflict", db |-> w1.db, player |-> None]
         ELSE [result |-> "Ok", db |-> w2.db, player |-> Some(player)]

\* Mutant of upsert_player_card: an update also stamps signed_in_at.
upsert_player_card_restamps(db, player_id, display_name, avatar, now) ==
    IF validate_str(display_name, DisplayNameMin, DisplayNameMax) # "Ok"
       \/ validate_str(avatar, AvatarMin, AvatarMax) # "Ok"
    THEN [result |-> "Validation", db |-> db, player |-> None]
    ELSE
      LET found == find_player(db, player_id)
          player == [ player_id |-> player_id,
                      display_name |-> display_name,
                      avatar |-> avatar,
                      created_at |-> IF is_some(found) THEN unwrap(found).created_at ELSE now,
                      signed_in_at |-> now,
                      last_signed_out_at |-> IF is_some(found)
                                             THEN unwrap(found).last_signed_out_at
                                             ELSE UNIX_EPOCH ]
          w1 == player_try_insert_or_update(db, player)
      IN IF w1.result # "Ok"
         THEN [result |-> "Conflict", db |-> db, player |-> None]
         ELSE [ result |-> "Ok",
                db |-> card_try_insert_or_update(w1.db, card_from(player)).db,
                player |-> Some(player) ]

\* The record it returns: result, the tables, and the Player row of Ok(player).
upsert_player_card(db, player_id, display_name, avatar, now) ==
    IF validate_str(display_name, DisplayNameMin, DisplayNameMax) # "Ok"
       \/ validate_str(avatar, AvatarMin, AvatarMax) # "Ok"
    THEN [result |-> "Validation", db |-> db, player |-> None]
    ELSE
      LET found == find_player(db, player_id)
          player == IF is_some(found)
                    THEN [unwrap(found) EXCEPT !.display_name = display_name, !.avatar = avatar]
                    ELSE [ player_id |-> player_id,
                           display_name |-> display_name,
                           avatar |-> avatar,
                           created_at |-> now,
                           signed_in_at |-> now,
                           last_signed_out_at |-> UNIX_EPOCH ]
          w1 == player_try_insert_or_update(db, player)
      IN IF w1.result # "Ok"
         THEN [result |-> "Conflict", db |-> db, player |-> None]
         ELSE [ result |-> "Ok",
                db |-> card_try_insert_or_update(w1.db, card_from(player)).db,
                player |-> Some(player) ]

\* Mutant of insert_player: the Player is not provisioned.
insert_player_skipped(db, player_id, display_name, now) ==
    [result |-> "Ok", db |-> db, player |-> None]

\* Mutant of insert_player: an existing Player is provisioned again.
insert_player_always_upserts(db, player_id, display_name, now) ==
    upsert_player_card(db, player_id, display_name, "default_avatar", now)

\* display_name is what build_unique_display_name returned for this call.
insert_player(db, player_id, display_name, now) ==
    IF is_some(find_player(db, player_id))
    THEN [result |-> "Ok", db |-> db, player |-> find_player(db, player_id)]
    ELSE upsert_player_card(db, player_id, display_name, "default_avatar", now)

\* Mutant of sign_in_session: every connect issues the session a new player_id.
sign_in_session_reprovisions(db, session_id, random, display_name, now) ==
    LET session == [ session_id |-> session_id,
                     player_id |-> new_uuid_v7(now, random),
                     is_online |-> TRUE ]
        w1 == session_try_insert_or_update(db, session)
        player == find_player(w1.db, session.player_id)
    IN IF is_some(player)
       THEN [ result |-> "Ok",
              db |-> player_update(w1.db, [unwrap(player) EXCEPT !.signed_in_at = now]) ]
       ELSE insert_player(w1.db, session.player_id, display_name, now)

\* random: the bytes new_uuid_v7 draws; display_name: what build_unique_display_name returns.
sign_in_session(db, session_id, random, display_name, now) ==
    LET found == find_session(db, session_id)
        session == IF is_some(found)
                   THEN [unwrap(found) EXCEPT !.is_online = TRUE]
                   ELSE [ session_id |-> session_id,
                          player_id |-> new_uuid_v7(now, random),
                          is_online |-> TRUE ]
        w1 == session_try_insert_or_update(db, session)
        player == find_player(w1.db, session.player_id)
    IN IF is_some(player)
       THEN [ result |-> "Ok",
              db |-> player_update(w1.db, [unwrap(player) EXCEPT !.signed_in_at = now]) ]
       ELSE insert_player(w1.db, session.player_id, display_name, now)

\* Mutant of sign_out_session: the Session row is deleted instead of set offline.
sign_out_session_deletes(db, session_id, now) ==
    [ result |-> "Ok",
      db |-> [db EXCEPT !.sessions = {s \in @ : s.session_id # session_id}] ]

\* Mutant of sign_out_session: signing out also resets signed_in_at.
sign_out_session_resets_sign_in(db, session_id, now) ==
    LET found == find_session(db, session_id)
    IN IF ~is_some(found)
       THEN [result |-> "Ok", db |-> db]
       ELSE
         LET session == [unwrap(found) EXCEPT !.is_online = FALSE]
             w1 == session_try_insert_or_update(db, session)
             player == find_player(w1.db, session.player_id)
         IN IF is_some(player)
            THEN [ result |-> "Ok",
                   db |-> player_update(w1.db, [unwrap(player) EXCEPT
                                                   !.last_signed_out_at = now,
                                                   !.signed_in_at = UNIX_EPOCH]) ]
            ELSE [result |-> "Ok", db |-> w1.db]

sign_out_session(db, session_id, now) ==
    LET found == find_session(db, session_id)
    IN IF ~is_some(found)
       THEN [result |-> "Ok", db |-> db]
       ELSE
         LET session == [unwrap(found) EXCEPT !.is_online = FALSE]
             w1 == session_try_insert_or_update(db, session)
             player == find_player(w1.db, session.player_id)
         IN IF is_some(player)
            THEN [ result |-> "Ok",
                   db |-> player_update(w1.db, [unwrap(player) EXCEPT !.last_signed_out_at = now]) ]
            ELSE [result |-> "Ok", db |-> w1.db]

\* validate.rs: PlayerExt::require_session
require_session(db, sender) == find_session(db, sender)

(***************************************************************************)
(* vip/repository.rs                                                       *)
(***************************************************************************)
\* stdb_own_vip_v1().vip_id().try_insert_or_update(row): vip_id is #[auto_inc], so a
\* row written with vip_id 0 is inserted under the next value of the sequence, and a
\* row written with the vip_id of an existing row replaces that row.  `rejected`
\* is the store refusing the write (the Err that map_conflict_ctx maps).
vip_try_insert_or_update(db, row, rejected) ==
    IF rejected
    THEN [result |-> "Conflict", db |-> db]
    ELSE IF row.vip_id = 0
    THEN [ result |-> "Ok",
           db |-> [db EXCEPT !.vips = @ \cup {[row EXCEPT !.vip_id = db.vip_seq + 1]},
                             !.vip_seq = @ + 1] ]
    ELSE [ result |-> "Ok",
           db |-> [db EXCEPT !.vips = {v \in @ : v.vip_id # row.vip_id} \cup {row}] ]

\* Mutant of player_ids_index_filter: the index is read by sender_id alone.
player_ids_index_filter_by_sender(db, sender_id, receiver_id) ==
    {v \in db.vips : v.sender_id = sender_id}

\* player_ids_index().filter((sender_id, receiver_id))
player_ids_index_filter(db, sender_id, receiver_id) ==
    {v \in db.vips : v.sender_id = sender_id /\ v.receiver_id = receiver_id}

\* .next() of the filter: the first row in the order the index yields equal keys,
\* which the source does not fix (index_order: "asc" or "desc" by vip_id).
find_vip(db, sender_id, receiver_id, index_order) ==
    LET found == player_ids_index_filter(db, sender_id, receiver_id)
    IN IF found = {} THEN None
       ELSE IF index_order = "asc"
       THEN Some(CHOOSE v \in found : \A w \in found : v.vip_id <= w.vip_id)
       ELSE Some(CHOOSE v \in found : \A w \in found : v.vip_id >= w.vip_id)

\* Mutant of upsert_vip: an update stamps the row with the current time.
upsert_vip_restamps(db, sender, sender_id, receiver_id, tag, status, now, rejected) ==
    LET new_row == IF is_some(sender)
                   THEN [unwrap(sender) EXCEPT !.tag = tag, !.status = status,
                                               !.created_at = now]
                   ELSE [ vip_id |-> 0,
                          sender_id |-> sender_id,
                          receiver_id |-> receiver_id,
                          tag |-> tag,
                          status |-> status,
                          created_at |-> now ]
        w == vip_try_insert_or_update(db, new_row, rejected)
    IN [ result |-> w.result,
         db |-> w.db,
         log |-> [ sender_id |-> sender_id, receiver_id |-> receiver_id,
                   status |-> status, result |-> w.result ] ]

upsert_vip(db, sender, sender_id, receiver_id, tag, status, now, rejected) ==
    LET new_row == IF is_some(sender)
                   THEN [unwrap(sender) EXCEPT !.tag = tag, !.status = status]
                   ELSE [ vip_id |-> 0,
                          sender_id |-> sender_id,
                          receiver_id |-> receiver_id,
                          tag |-> tag,
                          status |-> status,
                          created_at |-> now ]
        w == vip_try_insert_or_update(db, new_row, rejected)
    IN [ result |-> w.result,
         db |-> w.db,
         log |-> [ sender_id |-> sender_id, receiver_id |-> receiver_id,
                   status |-> status, result |-> w.result ] ]

TagMin == 0
TagMax == 32

\* Mutant of receiver_write: the (_, None) arm plants no inbound invite.
receiver_write_skips_invite(db, receiver, sender_id, receiver_id, now, rejected) ==
    IF ~is_some(receiver)
    THEN [ result |-> "Ok",
           db |-> db,
           log |-> [ sender_id |-> receiver_id, receiver_id |-> sender_id,
                     status |-> "InviteReceived", result |-> "Ok" ] ]
    ELSE upsert_vip(db, receiver, receiver_id, sender_id, unwrap(receiver).tag, "Friends",
                    now, rejected)

\* Mutant of receiver_write: the Some(r) arm rewrites r without promoting it.
receiver_write_keeps_status(db, receiver, sender_id, receiver_id, now, rejected) ==
    IF ~is_some(receiver)
    THEN upsert_vip(db, receiver, receiver_id, sender_id, "", "InviteReceived", now, rejected)
    ELSE upsert_vip(db, receiver, receiver_id, sender_id, unwrap(receiver).tag,
                    unwrap(receiver).status, now, rejected)

\* Mutant of receiver_write: the Some(r) arm promotes r with an empty tag.
receiver_write_drops_tag(db, receiver, sender_id, receiver_id, now, rejected) ==
    IF ~is_some(receiver)
    THEN upsert_vip(db, receiver, receiver_id, sender_id, "", "InviteReceived", now, rejected)
    ELSE upsert_vip(db, receiver, receiver_id, sender_id, "", "Friends", now, rejected)

\* The first write of insert_vip, on the row receiver_id -> sender_id: the (_, None)
\* arm plants the inbound invite, the (_, Some(r)) arm promotes r and keeps r.tag.
receiver_write(db, receiver, sender_id, receiver_id, now, rejected) ==
    IF ~is_some(receiver)
    THEN upsert_vip(db, receiver, receiver_id, sender_id, "", "InviteReceived", now, rejected)
    ELSE upsert_vip(db, receiver, receiver_id, sender_id, unwrap(receiver).tag, "Friends",
                    now, rejected)

\* Mutant of sender_write: every call re-sends the invite.
sender_write_resends(db, sender, receiver, sender_id, receiver_id, tag, now, rejected) ==
    upsert_vip(db, sender, sender_id, receiver_id, tag, "InviteSent", now, rejected)

\* The second write of insert_vip, on the row sender_id -> receiver_id, from the
\* sender row as it was read before the first write.
sender_write(db, sender, receiver, sender_id, receiver_id, tag, now, rejected) ==
    IF ~is_some(receiver)
    THEN upsert_vip(db, sender, sender_id, receiver_id, tag, "InviteSent", now, rejected)
    ELSE upsert_vip(db, sender, sender_id, receiver_id, tag, "Friends", now, rejected)

\* Mutant of insert_vip: the sender row is written before the receiver row.
insert_vip_sender_first(db, sender_id, receiver_id, tag, now, index_order, fault) ==
    LET validation ==
            IF validate_uuid(sender_id) # "Ok" THEN validate_uuid(sender_id)
            ELSE IF validate_uuid(receiver_id) # "Ok" THEN validate_uuid(receiver_id)
            ELSE validate_str(tag, TagMin, TagMax)
    IN IF validation # "Ok"
       THEN [result |-> service_result(validation), db |-> db, writes |-> << >>]
       ELSE
         LET sender == find_vip(db, sender_id, receiver_id, index_order)
             receiver == find_vip(db, receiver_id, sender_id, index_order)
             w1 == sender_write(db, sender, receiver, sender_id, receiver_id, tag, now,
                                fault = 1)
             w2 == receiver_write(w1.db, receiver, sender_id, receiver_id, now, fault = 2)
         IN IF w1.result # "Ok"
            THEN [result |-> w1.result, db |-> w1.db, writes |-> << w1.log >>]
            ELSE [result |-> w2.result, db |-> w2.db, writes |-> << w1.log, w2.log >>]

\* fault: which of the call's writes the store refuses (0: none).
insert_vip(db, sender_id, receiver_id, tag, now, index_order, fault) ==
    LET validation ==
            IF validate_uuid(sender_id) # "Ok" THEN validate_uuid(sender_id)
            ELSE IF validate_uuid(receiver_id) # "Ok" THEN validate_uuid(receiver_id)
            ELSE validate_str(tag, TagMin, TagMax)
    IN IF validation # "Ok"
       THEN [result |-> service_result(validation), db |-> db, writes |-> << >>]
       ELSE
         LET sender == find_vip(db, sender_id, receiver_id, index_order)
             receiver == find_vip(db, receiver_id, sender_id, index_order)
             w1 == receiver_write(db, receiver, sender_id, receiver_id, now, fault = 1)
             w2 == sender_write(w1.db, sender, receiver, sender_id, receiver_id, tag, now,
                                fault = 2)
         IN IF w1.result # "Ok"
            THEN [result |-> w1.result, db |-> w1.db, writes |-> << w1.log >>]
            ELSE [result |-> w2.result, db |-> w2.db, writes |-> << w1.log, w2.log >>]

(***************************************************************************)
(* Inputs of the reducers.                                                 *)
(***************************************************************************)
\* A tag one character longer than TagMax.
OversizedTag == "xxxxxxxxxxxxxxxxxxxxxxxxxxxxxxxxx"
Tags == {"x", "y", OversizedTag}

\* A well-formed identifier that belongs to no Player.
StrangerUuid == "00000009-0000-7000-8000-000000000009"
MalformedUuids == {"not-a-uuid"}

\* receiver_id is any text the caller passes.
ReceiverIds ==
    {p.player_id : p \in stdb_own_player_v1} \cup {StrangerUuid} \cup MalformedUuids

ProfileNames == {"Red Swift Wolf", new_uuid_v4(0), "short"}
Avatars == {"avatar_knight", ""}

\* The order in which the index yields rows of equal key matters only when two rows
\* share a key.
IndexOrders ==
    IF \E v, w \in stdb_own_vip_v1 :
          v # w /\ v.sender_id = w.sender_id /\ v.receiver_id = w.receiver_id
    THEN {"asc", "desc"}
    ELSE {"asc"}
Faults == {0, 1, 2}

\* vip/mod.rs STDB_OWN_VIP_LIST_V1_FILTER, the rows of stdb_own_vip_v1 a client
\* connected as `sender` is shown:
\*   select v.* from stdb_own_vip_v1 v
\*   join stdb_own_player_session_v1 s on s.player_id = v.sender_id
\* The query has no `:sender` parameter and no condition on is_online.
STDB_OWN_VIP_LIST_V1_FILTER(db, sender) ==
    {v \in db.vips : \E s \in db.sessions : s.player_id = v.sender_id}

(***************************************************************************)
(* Reducers and lifecycle hooks: one transaction each.                     *)
(***************************************************************************)
Commit(db) ==
    /\ stdb_own_player_session_v1' = db.sessions
    /\ stdb_own_player_v1' = db.players
    /\ stdb_pub_player_card_v1' = db.cards
    /\ stdb_own_vip_v1' = db.vips
    /\ vip_id_seq' = db.vip_seq

\* A reducer that returns Err or panics leaves no trace in the tables.
Transaction(r) ==
    IF r.result = "Ok" THEN Commit(r.db) ELSE UNCHANGED tables

\* lib.rs stdb_identity_connected -> player::stdb_identity_connected
stdb_identity_connected(sender, random, display_name) ==
    LET r == sign_in_session(Db, sender, random, display_name, timestamp)
    IN /\ Transaction(r)
       /\ UNCHANGED << timestamp, uuid_validator, requested, common_call >>

\* Mutant of player_stdb_identity_disconnected: an unknown identity gets an
\* offline Session row.
player_stdb_identity_disconnected_creates(db, sender, now) ==
    IF is_some(find_session(db, sender))
    THEN [result |-> "Ok", db |-> sign_out_session(db, sender, now).db]
    ELSE [ result |-> "Ok",
           db |-> session_try_insert_or_update(db, [ session_id |-> sender,
                                                     player_id |-> new_uuid_v7(now, 0),
                                                     is_online |-> FALSE ]).db ]

\* player::stdb_identity_disconnected: `let _ =` drops the result of
\* sign_out_session and the hook returns (), so its caller always sees success.
player_stdb_identity_disconnected(db, sender, now) ==
    [result |-> "Ok", db |-> sign_out_session(db, sender, now).db]

\* lib.rs stdb_identity_disconnected -> player::stdb_identity_disconnected
stdb_identity_disconnected(sender) ==
    LET r == player_stdb_identity_disconnected(Db, sender, timestamp)
    IN /\ Commit(r.db)
       /\ UNCHANGED << timestamp, uuid_validator, requested, common_call >>

\* Mutant of update_player_card_v1_reducer: no session check, the profile of some
\* Player is written.
update_player_card_v1_unchecked(db, sender, display_name, avatar, now) ==
    LET session == require_session(db, sender)
    IN IF ~is_some(session)
       THEN IF db.players = {}
            THEN [result |-> "Unauthorized", db |-> db, player |-> None]
            ELSE upsert_player_card(db, (CHOOSE p \in db.players : TRUE).player_id,
                                    display_name, avatar, now)
       ELSE upsert_player_card(db, unwrap(session).player_id, display_name, avatar, now)

\* The body of the reducer update_player_card_v1: its result and the tables it leaves.
update_player_card_v1_reducer(db, sender, display_name, avatar, now) ==
    LET session == require_session(db, sender)
    IN IF ~is_some(session)
       THEN [result |-> "Unauthorized", db |-> db, player |-> None]
       ELSE upsert_player_card(db, unwrap(session).player_id, display_name, avatar, now)

update_player_card_v1(sender, display_name, avatar) ==
    LET r == update_player_card_v1_reducer(Db, sender, display_name, avatar, timestamp)
    IN /\ Transaction(r)
       /\ UNCHANGED << timestamp, uuid_validator, requested, common_call >>

\* The body of the reducer insert_vip_v1: its result and the tables it leaves.
insert_vip_v1_reducer(db, sender, receiver_id, tag, now, index_order, fault) ==
    LET session == require_session(db, sender)
    IN IF ~is_some(session)
       THEN [result |-> "Unauthorized", db |-> db, writes |-> << >>]
       ELSE insert_vip(db, unwrap(session).player_id, receiver_id, tag, now,
                       index_order, fault)

insert_vip_v1(sender, receiver_id, tag, index_order, fault) ==
    LET session == require_session(Db, sender)
        r == insert_vip_v1_reducer(Db, sender, receiver_id, tag, timestamp,
                                   index_order, fault)
    IN /\ Cardinality(r.db.vips) <= MaxVipRows
       /\ Transaction(r)
       /\ requested' = IF r.result = "Ok"
                       THEN requested \cup {<< unwrap(session).player_id, receiver_id >>}
                       ELSE requested
       /\ UNCHANGED << timestamp, uuid_validator, common_call >>

\* The host's clock between two reducer calls.
Tick ==
    /\ timestamp + TickMicros <= MaxMicros
    /\ timestamp' = timestamp + TickMicros
    /\ UNCHANGED << tables, uuid_validator, requested, common_call >>

\* No stdb-common helper was called on its own yet.
NoCall == [fn |-> "none", input |-> << >>, output |-> << >>]

InitTables ==
    /\ stdb_own_player_session_v1 = {}
    /\ stdb_own_player_v1 = {}
    /\ stdb_pub_player_card_v1 = {}
    /\ stdb_own_vip_v1 = {}
    /\ vip_id_seq = 0
    /\ timestamp = MicrosPerMilli
    /\ requested = {}
    /\ common_call = NoCall

\* The library as shipped: validate_uuid is the unimplemented!() stub.
Init == InitTables /\ uuid_validator = "unimplemented"

\* The library with validate_uuid given the body its comment describes.
InitValidated == InitTables /\ uuid_validator = "implemented"

Next ==
    \/ \E sender \in Identities, random \in RandomV7 :
         \E display_name \in build_unique_display_name(Db) :
            stdb_identity_connected(sender, random, display_name)
    \/ \E sender \in Identities : stdb_identity_disconnected(sender)
    \/ \E sender \in Identities, display_name \in ProfileNames, avatar \in Avatars :
         update_player_card_v1(sender, display_name, avatar)
    \/ \E sender \in Identities, receiver_id \in ReceiverIds, tag \in Tags,
          index_order \in IndexOrders, fault \in Faults :
         insert_vip_v1(sender, receiver_id, tag, index_order, fault)
    \/ Tick

Spec == Init /\ [][Next]_vars

\* The relationship engine on its own: sessions are opened, relationships requested.
NextVip ==
    \/ \E sender \in Identities, random \in RandomV7 :
         \E display_name \in build_unique_display_name(Db) :
            stdb_identity_connected(sender, random, display_name)
    \/ \E sender \in Identities, receiver_id \in ReceiverIds, tag \in Tags,
          index_order \in IndexOrders, fault \in Faults :
         insert_vip_v1(sender, receiver_id, tag, index_order, fault)

SpecValidated == InitValidated /\ [][NextVip]_vars

(***************************************************************************)
(* The helpers of stdb-common called on their own: each behaviour makes    *)
(* one call, with its arguments drawn from the sets below.                 *)
(***************************************************************************)
RECURSIVE string_of_len(_)
string_of_len(n) == IF n = 0 THEN "" ELSE "x" \o string_of_len(n - 1)

StrLengths == {0, 1, 5, 7, 8, 9, 32, 33, 63, 64, 65}
MinLengths == {0, 1, 8}
MaxLengths == {4, 32, 64}

\* Byte sources: a first byte and a step from one call to the next.  Every byte
\* value occurs at every position.
ByteSources == {[k \in 0..15 |-> (start + k * step) % 256] : start \in 0..255, step \in {0, 1}}

\* u64 timestamps in milliseconds, as eight big-endian bytes: 0, 1, the value of
\* the unit test (1752115008844), 2^48 - 1, 2^48, 2^48 + 1 and u64::MAX (which is
\* what `-1 as u64` gives for a clock one millisecond before the epoch).
TimestampsMillis ==
    { as_u64_be_bytes(0), as_u64_be_bytes(1),
      [i \in 0..7 |-> << 0, 0, 1, 151, 242, 49, 85, 76 >>[i + 1]],
      [i \in 0..7 |-> IF i < 2 THEN 0 ELSE 255],
      [i \in 0..7 |-> IF i = 1 THEN 1 ELSE 0],
      [i \in 0..7 |-> IF i \in {1, 7} THEN 1 ELSE 0],
      as_u64_be_bytes(-1) }

\* Timestamps around the epoch, around one day from it, and those of the unit tests.
TimestampSecs ==
    { -172800, -86401, -86400, -86399, -1, 0, 1, 86399, 86400, 86401,
      1745712000, 1745712001, 1745748000, 1745798399 }
Timestamps ==
    {ts \in [secs : TimestampSecs, micros : {-999999, -1, 0, 1, 999999}] :
        /\ ts.secs > 0 => ts.micros >= 0
        /\ ts.secs < 0 => ts.micros <= 0}

CommonCall(fn, input, output) ==
    /\ common_call = NoCall
    /\ common_call' = [fn |-> fn, input |-> input, output |-> output]
    /\ UNCHANGED << tables, timestamp, uuid_validator, requested >>

call_validate_str(value, min_length, max_length) ==
    CommonCall("validate_str", << value, min_length, max_length >>,
               validate_str(value, min_length, max_length))

call_inner_new_uuid_v4(rng) ==
    CommonCall("inner_new_uuid_v4", << rng >>, inner_new_uuid_v4(rng))

call_inner_new_uuid_v7(timestamp_millis, rng) ==
    CommonCall("inner_new_uuid_v7", << timestamp_millis, rng >>,
               inner_new_uuid_v7(timestamp_millis, rng))

call_into_midnight(self) ==
    CommonCall("into_midnight", << self >>, into_midnight(self))

NextCommon ==
    \/ \E n \in StrLengths, min_length \in MinLengths, max_length \in MaxLengths :
         call_validate_str(string_of_len(n), min_length, max_length)
    \/ \E rng \in ByteSources : call_inner_new_uuid_v4(rng)
    \/ \E timestamp_millis \in TimestampsMillis, rng \in ByteSources :
         call_inner_new_uuid_v7(timestamp_millis, rng)
    \/ \E self \in Timestamps : call_into_midnight(self)

SpecCommon == Init /\ [][NextCommon]_vars

(***************************************************************************)
(* Properties.                                                             *)
(***************************************************************************)
\* The rows sender_id -> receiver_id of a VIP table.
VipRows(vips, sender_id, receiver_id) ==
    {v \in vips : v.sender_id = sender_id /\ v.receiver_id = receiver_id}

\* Every identifier a VIP row names.
VipIds(vips) == {v.sender_id : v \in vips} \cup {v.receiver_id : v \in vips}

\* The player_id of every session: the sender_id insert_vip_v1 can pass.
SessionPlayerIds == {s.player_id : s \in stdb_own_player_session_v1}

\* The receiver ids and tags that pass validation.
ValidReceiverIds == {id \in ReceiverIds : validate_uuid_intended(id) = "Ok"}
ValidTags == {t \in Tags : validate_str(t, TagMin, TagMax) = "Ok"}

\* A VIP table without its surrogate keys.
Relationships(vips) ==
    {[ sender_id |-> v.sender_id, receiver_id |-> v.receiver_id, tag |-> v.tag,
       status |-> v.status, created_at |-> v.created_at ] : v \in vips}

\* a -> b and b -> a are one row each, both Friends.
BothFriends(vips, a, b) ==
    /\ \E v \in VipRows(vips, a, b) : VipRows(vips, a, b) = {v} /\ v.status = "Friends"
    /\ \E w \in VipRows(vips, b, a) : VipRows(vips, b, a) = {w} /\ w.status = "Friends"

PairConsistent(vips, a, b) ==
    \/ VipRows(vips, a, b) = {} /\ VipRows(vips, b, a) = {}
    \/ \E v \in VipRows(vips, a, b), w \in VipRows(vips, b, a) :
          /\ VipRows(vips, a, b) = {v}
          /\ VipRows(vips, b, a) = {w}
          /\ << v.status, w.status >> \in { << "InviteSent", "InviteReceived" >>,
                                           << "InviteReceived", "InviteSent" >>,
                                           << "Friends", "Friends" >> }

C5_RetryOnFriendsArm ==
    \A a \in SessionPlayerIds, b \in ValidReceiverIds, t \in ValidTags, o \in IndexOrders :
        (a # b /\ is_some(find_vip(Db, b, a, o)))
        => LET first == insert_vip(Db, a, b, t, timestamp, o, 0)
               second == insert_vip(first.db, a, b, t, timestamp, o, 0)
           IN first.result = "Ok" /\ second.result = "Ok" /\ second.db.vips = first.db.vips

C7_DecisionTableDistinctEnds ==
    \A a \in SessionPlayerIds, b \in ValidReceiverIds, t \in ValidTags, o \in IndexOrders :
        a # b
        => LET receiver == find_vip(Db, b, a, o)
               r == insert_vip(Db, a, b, t, timestamp, o, 0)
           IN /\ r.result = "Ok"
              /\ IF ~is_some(receiver)
                 THEN /\ \E v \in VipRows(r.db.vips, b, a) :
                           v.status = "InviteReceived" /\ v.tag = ""
                      /\ \E v \in VipRows(r.db.vips, a, b) :
                           v.status = "InviteSent" /\ v.tag = t
                 ELSE /\ \A v \in VipRows(r.db.vips, b, a) \cup VipRows(r.db.vips, a, b) :
                           v.status = "Friends"
                      /\ \E v \in VipRows(r.db.vips, b, a) :
                           v.vip_id = unwrap(receiver).vip_id /\ v.tag = unwrap(receiver).tag
                      /\ \E v \in VipRows(r.db.vips, a, b) : v.tag = t

SessionState(sessions, session_id) ==
    IF \A s \in sessions : s.session_id # session_id THEN "Unknown"
    ELSE IF \E s \in sessions : s.session_id = session_id /\ s.is_online THEN "Online"
    ELSE "Offline"

\* C9: in every committed state, every Session row has exactly one Player row with
\* its player_id.
C9_SessionReferencesOnePlayer ==
    \A s \in stdb_own_player_session_v1 :
        Cardinality({p \in stdb_own_player_v1 : p.player_id = s.player_id}) = 1

\* Witness of C9: two sessions, one of them signed out, after a profile update.
C9_Witness ==
    /\ \E s, t \in stdb_own_player_session_v1 :
          s.session_id # t.session_id /\ ~s.is_online /\ s.player_id # t.player_id
    /\ \E p \in stdb_own_player_v1 : p.avatar = "avatar_knight"

\* C10: per session_id, a connect step ends Online from any state, a disconnect step
\* ends Offline from Online or Offline and Unknown from Unknown, and no step of any
\* operation takes a known session back to Unknown. (A connect that returns Err is
\* rolled back by the host and is no step.)
C10_SessionStateMachine ==
    [][\A id \in Identities :
          LET from == SessionState(stdb_own_player_session_v1, id)
              to == SessionState(stdb_own_player_session_v1', id)
          IN /\ from # "Unknown" => to # "Unknown"
             /\ (\E random \in RandomV7 : \E display_name \in build_unique_display_name(Db) :
                    stdb_identity_connected(id, random, display_name))
                  => to = "Online"
             /\ stdb_identity_disconnected(id)
                  => to = (IF from = "Unknown" THEN "Unknown" ELSE "Offline")]_vars

\* Witness of C10: a session that connected, connected again later and then
\* disconnected, so it is Offline.
C10_Witness ==
    \E s \in stdb_own_player_session_v1 :
        /\ ~s.is_online
        /\ \E p \in stdb_own_player_v1 :
              /\ p.player_id = s.player_id
              /\ p.signed_in_at > p.created_at
              /\ p.last_signed_out_at >= p.signed_in_at

\* C11: a connect that succeeded, followed by a second connect of the same identity
\* (at the same or a later time, no disconnect between), succeeds and leaves exactly
\* one Session row for the identity, online and with the same player_id, exactly one
\* Player row for that player_id, and no further Player or Public Card row.
C11_SignInIsIdempotent ==
    \A id \in Identities, r1 \in RandomV7 :
      \A n1 \in build_unique_display_name(Db) :
        LET first == sign_in_session(Db, id, r1, n1, timestamp)
        IN first.result = "Ok"
           => \A now2 \in {timestamp, timestamp + TickMicros}, r2 \in RandomV7 :
                \A n2 \in build_unique_display_name(first.db) :
                  LET second == sign_in_session(first.db, id, r2, n2, now2)
                      mine == find_session(second.db, id)
                  IN /\ second.result = "Ok"
                     /\ second.db.sessions = first.db.sessions
                     /\ Cardinality(mine) = 1
                     /\ unwrap(mine).is_online
                     /\ Cardinality(find_player(second.db, unwrap(mine).player_id)) = 1
                     /\ second.db.cards = first.db.cards
                     /\ second.db.players
                          = {IF p.player_id = unwrap(mine).player_id
                             THEN [p EXCEPT !.signed_in_at = now2] ELSE p
                             : p \in first.db.players}

\* Witness of C11: an online session whose Player signed in again later and never
\* signed out.
C11_Witness ==
    \E s \in stdb_own_player_session_v1 :
        /\ s.is_online
        /\ Cardinality(stdb_own_player_session_v1) = 2
        /\ \E p \in stdb_own_player_v1 :
              /\ p.player_id = s.player_id
              /\ p.signed_in_at > p.created_at
              /\ p.last_signed_out_at = UNIX_EPOCH

\* C12: disconnect reports success for every identity in every state, and for an
\* identity that has no Session row it leaves the Session, Player, Public Card and
\* VIP tables (and the vip_id sequence) exactly as they were.
C12_DisconnectNeverFails ==
    \A id \in Identities :
        LET r == player_stdb_identity_disconnected(Db, id, timestamp)
        IN /\ r.result = "Ok"
           /\ ~is_some(find_session(Db, id)) => r.db = Db

\* Witness of C12: an identity without a Session row while another identity's
\* session, signed out before, and its Player and Public Card exist.
C12_Witness ==
    /\ \E id \in Identities : ~is_some(find_session(Db, id))
    /\ \E s \in stdb_own_player_session_v1 : ~s.is_online
    /\ stdb_own_player_v1 # {}
    /\ stdb_pub_player_card_v1 # {}

\* C13: in every committed state the Public Card table is exactly the projection
\* (player_id, display_name, avatar) of the Player table: a card exists for a
\* player_id if and only if a Player does, with the Player's display_name and avatar.
C13_CardIsProjectionOfPlayer ==
    /\ stdb_pub_player_card_v1 = {card_from(p) : p \in stdb_own_player_v1}
    /\ \A c, d \in stdb_pub_player_card_v1 : c.player_id = d.player_id => c = d

\* Witness of C13: two Players, one of which changed display_name and avatar
\* through update_profile and signed out.
C13_Witness ==
    /\ Cardinality(stdb_own_player_v1) = 2
    /\ \E p \in stdb_own_player_v1 :
          /\ p.avatar = "avatar_knight"
          /\ p.display_name \notin RandomDisplayNames
          /\ p.last_signed_out_at # UNIX_EPOCH
          /\ card_from(p) \in stdb_pub_player_card_v1

\* C14: in every committed state no two Player rows have the same display_name.
C14_DisplayNameIsUnique ==
    \A p, q \in stdb_own_player_v1 : p.display_name = q.display_name => p = q

\* Witness of C14: two Players, one renamed through update_profile, each holding a
\* name update_profile of the other can ask for.
C14_Witness ==
    /\ Cardinality(stdb_own_player_v1) = 2
    /\ \E p, q \in stdb_own_player_v1 :
          /\ p # q
          /\ p.avatar = "avatar_knight"
          /\ p.display_name \in ProfileNames
          /\ q.display_name \in ProfileNames

\* The display names held by a Player other than the one of this session.
NamesHeldByOthers(db, session) ==
    {p.display_name : p \in {q \in db.players : q.player_id # session.player_id}}

\* C15 (as claimed): update_profile with a display_name held by a different Player
\* fails with Conflict, whatever the avatar, and leaves every table unchanged.
C15_ConflictOnHeldName ==
    \A sender \in Identities, avatar \in Avatars :
        \A session \in require_session(Db, sender) :
            \A display_name \in NamesHeldByOthers(Db, session) :
                LET r == update_player_card_v1_reducer(Db, sender, display_name, avatar,
                                                       timestamp)
                IN r.result = "Conflict" /\ r.db = Db

\* C15 (amended): update_profile with a display_name held by a different Player
\* fails and leaves every table unchanged; the failure is Conflict when the avatar
\* has 8 to 64 characters and Validation when it has not.
C15_ConflictOnHeldNameValidAvatar ==
    \A sender \in Identities, avatar \in Avatars :
        \A session \in require_session(Db, sender) :
            \A display_name \in NamesHeldByOthers(Db, session) :
                LET r == update_player_card_v1_reducer(Db, sender, display_name, avatar,
                                                       timestamp)
                IN /\ r.db = Db
                   /\ r.result = IF validate_str(avatar, AvatarMin, AvatarMax) = "Ok"
                                 THEN "Conflict" ELSE "Validation"

\* Witness of C15: a session whose Player was renamed before, and a different
\* Player holding a name that update_profile of this session asks for.
C15_Witness ==
    \E s \in stdb_own_player_session_v1 :
        /\ \E p \in stdb_own_player_v1 :
              p.player_id = s.player_id /\ p.avatar = "avatar_knight"
        /\ NamesHeldByOthers(Db, s) \cap ProfileNames # {}
        /\ \E n \in NamesHeldByOthers(Db, s) \cap ProfileNames :
              update_player_card_v1_reducer(Db, s.session_id, n, "avatar_knight",
                                            timestamp).result = "Conflict"

\* C16: update_profile and request_relationship called by an identity that has no
\* Session row fail with Unauthorized, whatever their arguments, issue no write and
\* leave every table unchanged.
C16_UnauthorizedWithoutSession ==
    \A sender \in Identities :
        ~is_some(find_session(Db, sender))
        => /\ \A display_name \in ProfileNames, avatar \in Avatars :
                LET r == update_player_card_v1_reducer(Db, sender, display_name, avatar,
                                                       timestamp)
                IN r.result = "Unauthorized" /\ r.db = Db
           /\ \A receiver_id \in ReceiverIds, tag \in Tags, o \in {"asc", "desc"},
                 f \in Faults :
                LET r == insert_vip_v1_reducer(Db, sender, receiver_id, tag, timestamp, o, f)
                IN r.result = "Unauthorized" /\ r.db = Db /\ r.writes = << >>

\* Witness of C16: an identity without a Session row calls update_profile with valid
\* arguments while another identity's Player exists, and is refused.
C16_Witness ==
    \E sender \in Identities :
        /\ ~is_some(find_session(Db, sender))
        /\ \E p \in stdb_own_player_v1 : p.avatar = "avatar_knight"
        /\ update_player_card_v1_reducer(Db, sender, new_uuid_v4(0), "avatar_knight",
                                         timestamp).result = "Unauthorized"

C18_ValidationOutcome ==
    \A sender \in Identities, receiver_id \in ReceiverIds, tag \in Tags,
       o \in IndexOrders :
        is_some(find_session(Db, sender))
        => LET r == insert_vip_v1_reducer(Db, sender, receiver_id, tag, timestamp, o, 0)
           IN IF receiver_id \in ValidReceiverIds /\ tag \in ValidTags
              THEN r.result \notin {"Validation", "Panic"}
              ELSE r.result = "Validation" /\ r.db = Db /\ r.writes = << >>

\* C19: insert_player for a player_id that already has a Player returns Ok with that
\* Player as it is, and leaves every table unchanged, whatever name the allocation
\* would have drawn and whatever the time of the call.
C19_EnsurePlayerIsIdempotent ==
    \A p \in stdb_own_player_v1 :
        \A display_name \in RandomDisplayNames \cup ProfileNames,
           now \in {timestamp, timestamp + TickMicros} :
            LET r == insert_player(Db, p.player_id, display_name, now)
            IN r.result = "Ok" /\ r.player = Some(p) /\ r.db = Db

\* Witness of C19: a Player whose display_name, avatar and timestamps all differ
\* from those of a newly provisioned Player, on which insert_player is called.
C19_Witness ==
    \E p \in stdb_own_player_v1 :
        /\ p.avatar = "avatar_knight"
        /\ p.display_name \notin RandomDisplayNames
        /\ p.signed_in_at > p.created_at
        /\ p.last_signed_out_at # UNIX_EPOCH
        /\ timestamp > p.created_at
        /\ insert_player(Db, p.player_id, "Blue Brave Oak", timestamp).result = "Ok"

\* C20: on every outcome of the random source, unique display-name allocation makes
\* between 1 and 12 draws and returns the first drawn name that no Player holds,
\* after exactly that many draws (the first draw when it does not collide); when
\* all 12 draws collide it returns the text of a v4 identifier.  The names a connect
\* can be given are exactly these.
C20_UniqueNameAllocation ==
    /\ \A draws \in DrawSequences, random \in RandomV4 :
          LET out == build_unique_display_name_drawn(Db, draws, random)
              free == {i \in 1..MaxDisplayNameAttempts :
                          \A p \in stdb_own_player_v1 : p.display_name # draws[i]}
          IN /\ out.draws \in 1..MaxDisplayNameAttempts
             /\ IF free # {}
                THEN LET first == CHOOSE i \in free : \A j \in free : i <= j
                     IN out.display_name = draws[first] /\ out.draws = first
                ELSE /\ out.display_name = new_uuid_v4(random)
                     /\ out.draws = MaxDisplayNameAttempts
    /\ build_unique_display_name(Db)
          = {build_unique_display_name_drawn(Db, draws, random).display_name :
                draws \in DrawSequences, random \in RandomV4}

\* Witness of C20: a Player named by the fallback exists, and in this state one
\* outcome of the draws collides 11 times and is accepted on the 12th draw while
\* another collides 12 times.
C20_Witness ==
    /\ \E p \in stdb_own_player_v1 : p.display_name = new_uuid_v4(1)
    /\ \E draws \in DrawSequences :
          LET out == build_unique_display_name_drawn(Db, draws, 0)
          IN out.draws = MaxDisplayNameAttempts /\ out.display_name = draws[MaxDisplayNameAttempts]
    /\ \E draws \in DrawSequences :
          build_unique_display_name_drawn(Db, draws, 0).display_name = new_uuid_v4(0)

\* C21: validate_str returns RequiredField when min > 0 and the value is empty,
\* otherwise FieldTooSmall when the length is below min, otherwise FieldTooLarge
\* when the length is above max, otherwise Ok; with the bounds [8, 64] a value
\* of length 7 is FieldTooSmall, lengths 8 and 64 are Ok, length 65 is FieldTooLarge.
C21_ValidateLength ==
    common_call.fn = "validate_str" =>
        LET length == Len(common_call.input[1])
            min == common_call.input[2]
            max == common_call.input[3]
            out == common_call.output
            required == min > 0 /\ length = 0
        IN /\ required => out = "RequiredField"
           /\ (~required /\ length < min) => out = "FieldTooSmall"
           /\ (~required /\ length >= min /\ length > max) => out = "FieldTooLarge"
           /\ (~required /\ length >= min /\ length <= max) => out = "Ok"
           /\ (min = DisplayNameMin /\ max = DisplayNameMax) =>
                 /\ length = 7 => out = "FieldTooSmall"
                 /\ length \in {8, 64} => out = "Ok"
                 /\ length = 65 => out = "FieldTooLarge"

\* Witness of C21: the call with a value of length 64 and the bounds [8, 64] was
\* made and returned Ok.
C21_Witness ==
    /\ common_call.fn = "validate_str"
    /\ Len(common_call.input[1]) = 64
    /\ common_call.input[2] = 8 /\ common_call.input[3] = 64
    /\ common_call.output = "Ok"
\* C22: for every byte source, a v4 identifier has the high nibble of byte 6
\* equal to 0100 and the top two bits of byte 8 equal to 10, a v7 identifier has
\* the high nibble of byte 6 equal to 0111 and the top two bits of byte 8 equal
\* to 10, and every other random bit is the bit the source gave, in the order of
\* the calls.
C22_MarkerBits ==
    /\ common_call.fn = "inner_new_uuid_v4" =>
          LET rng == common_call.input[1]
              uuid_bytes == common_call.output
          IN /\ uuid_bytes[6] \div 16 = 4
             /\ uuid_bytes[8] \div 64 = 2
             /\ uuid_bytes[6] % 16 = rng[6] % 16
             /\ uuid_bytes[8] % 64 = rng[8] % 64
             /\ \A index \in (0..15) \ {6, 8} : uuid_bytes[index] = rng[index]
    /\ common_call.fn = "inner_new_uuid_v7" =>
          LET rng == common_call.input[2]
              uuid_bytes == common_call.output
          IN /\ uuid_bytes[6] \div 16 = 7
             /\ uuid_bytes[8] \div 64 = 2
             /\ uuid_bytes[6] % 16 = rng[0] % 16
             /\ uuid_bytes[8] % 64 = rng[2] % 64
             /\ \A index \in (7..15) \ {8} : uuid_bytes[index] = rng[index - 6]

\* Witness of C22: a v4 identifier was built from a source that yields 0xff on
\* every call; its byte 6 is 0x4f and its byte 8 is 0xbf.
C22_Witness ==
    /\ common_call.fn = "inner_new_uuid_v4"
    /\ \A k \in 0..15 : common_call.input[1][k] = 255
    /\ common_call.output[6] = 79
    /\ common_call.output[8] = 191

\* The u64 that bytes 0 to 5 of an identifier hold, as eight big-endian bytes.
top_48_bits(uuid_bytes) == [i \in 0..7 |-> IF i < 2 THEN 0 ELSE uuid_bytes[i - 2]]

\* C23: for every v7 identifier built from the millisecond timestamp t and every
\* byte source, bytes 0 to 5 of the identifier, read big-endian, are t.
C23_TimestampRoundTrip ==
    common_call.fn = "inner_new_uuid_v7" =>
        top_48_bits(common_call.output) = common_call.input[1]

\* What holds of C23: the round trip for the timestamps below 2^48.
C23_TimestampRoundTripBelow2Pow48 ==
    (/\ common_call.fn = "inner_new_uuid_v7"
     /\ common_call.input[1][0] = 0
     /\ common_call.input[1][1] = 0)
        => top_48_bits(common_call.output) = common_call.input[1]

\* t1 <= t2 for two Timestamps.
timestamp_le(t1, t2) == t1.secs < t2.secs \/ (t1.secs = t2.secs /\ t1.micros <= t2.micros)

\* t2 - t1 is less than one day.
less_than_a_day_apart(t1, t2) ==
    \/ t2.secs - t1.secs < SecondsInADay
    \/ (t2.secs - t1.secs = SecondsInADay /\ t2.micros - t1.micros < 0)

is_midnight(t) == t.micros = 0 /\ t.secs % SecondsInADay = 0

\* C24: into_midnight maps every timestamp to a whole multiple of one day since
\* the epoch that is not later than the timestamp and less than one day before
\* it; a timestamp at midnight maps to itself.
C24_IntoMidnight ==
    common_call.fn = "into_midnight" =>
        LET self == common_call.input[1]
            midnight == common_call.output
        IN /\ is_midnight(midnight)
           /\ timestamp_le(midnight, self)
           /\ less_than_a_day_apart(midnight, self)
           /\ is_midnight(self) => midnight = self

\* What holds of C24: the same for the timestamps at or after the epoch.
C24_IntoMidnightSinceEpoch ==
    (/\ common_call.fn = "into_midnight"
     /\ common_call.input[1].secs >= 0
     /\ common_call.input[1].micros >= 0)
        => LET self == common_call.input[1]
               midnight == common_call.output
           IN /\ is_midnight(midnight)
              /\ timestamp_le(midnight, self)
              /\ less_than_a_day_apart(midnight, self)
              /\ is_midnight(self) => midnight = self
\* The VIP table a request_relationship(a, b, t) leaves when its first write
\* lands and the store refuses its second: the state that would stay if the
\* call were not rolled back.
only_first_write_lands(a, b, t, o) == insert_vip(Db, a, b, t, timestamp, o, 2)

\* Every Friends row from x to y has a reverse row, and every reverse row is Friends.
friends_has_friends_reverse(vips, x, y) ==
    (\E v \in VipRows(vips, x, y) : v.status = "Friends")
        => /\ VipRows(vips, y, x) # {}
           /\ \A w \in VipRows(vips, y, x) : w.status = "Friends"

Newcomer == "i3"

\* C26: the name unique-name allocation returns, the fallback after 12 collisions
\* included, is the display_name of no Player, so the connect of an identity
\* without a Session, which provisions a new Player under that name, does not
\* fail with a display-name Conflict.
C26_AllocatedNameIsFree ==
    \A draws \in DrawSequences, random \in RandomV4 :
        LET out == build_unique_display_name_drawn(Db, draws, random)
        IN /\ ~is_some(find_player_by_display_name(Db, out.display_name))
           /\ \A now \in {timestamp, timestamp + TickMicros}, r7 \in RandomV7 :
                ~is_some(find_player(Db, new_uuid_v7(now, r7)))
                => sign_in_session(Db, Newcomer, r7, out.display_name, now).result = "Ok"

\* C26 for the names that are drawn: a name returned before the 12 attempts are
\* used up is the display_name of no Player, and provisioning under it succeeds.
C26_DrawnNameIsFree ==
    \A draws \in DrawSequences, random \in RandomV4 :
        LET out == build_unique_display_name_drawn(Db, draws, random)
        IN out.display_name \in RandomDisplayNames
           => /\ ~is_some(find_player_by_display_name(Db, out.display_name))
              /\ \A now \in {timestamp, timestamp + TickMicros}, r7 \in RandomV7 :
                   ~is_some(find_player(Db, new_uuid_v7(now, r7)))
                   => sign_in_session(Db, Newcomer, r7, out.display_name, now).result = "Ok"
\* The row of `after` with the vip_id of v keeps v's vip_id, sender_id,
\* receiver_id and created_at.
row_is_kept(v, after) ==
    \E w \in after :
        /\ w.vip_id = v.vip_id
        /\ w.sender_id = v.sender_id
        /\ w.receiver_id = v.receiver_id
        /\ w.created_at = v.created_at

C28_UpdateProfileFrame ==
    \A player_id \in {p.player_id : p \in stdb_own_player_v1} \cup {StrangerUuid},
       display_name \in ProfileNames \cup RandomDisplayNames, avatar \in Avatars,
       now \in {timestamp, timestamp + TickMicros} :
        LET r == upsert_player_card(Db, player_id, display_name, avatar, now)
            found == find_player(Db, player_id)
            written == IF is_some(found)
                       THEN [ player_id |-> player_id,
                              display_name |-> display_name,
                              avatar |-> avatar,
                              created_at |-> unwrap(found).created_at,
                              signed_in_at |-> unwrap(found).signed_in_at,
                              last_signed_out_at |-> unwrap(found).last_signed_out_at ]
                       ELSE [ player_id |-> player_id,
                              display_name |-> display_name,
                              avatar |-> avatar,
                              created_at |-> now,
                              signed_in_at |-> now,
                              last_signed_out_at |-> UNIX_EPOCH ]
        IN IF r.result = "Ok"
           THEN /\ r.db.players
                     = {p \in stdb_own_player_v1 : p.player_id # player_id} \cup {written}
                /\ r.db.cards
                     = {c \in stdb_pub_player_card_v1 : c.player_id # player_id}
                         \cup {[ player_id |-> player_id, display_name |-> display_name,
                                 avatar |-> avatar ]}
                /\ r.db.sessions = stdb_own_player_session_v1
                /\ r.db.vips = stdb_own_vip_v1
                /\ r.db.vip_seq = vip_id_seq
                /\ r.player = Some(written)
           ELSE r.db = Db

\* Witness of C28: a Player that signed in again and signed out after its
\* creation, on which update_profile succeeds and changes the display_name.
C28_Witness ==
    \E p \in stdb_own_player_v1 :
        /\ p.signed_in_at > p.created_at
        /\ p.last_signed_out_at > p.created_at
        /\ p.avatar = "default_avatar"
        /\ LET r == upsert_player_card(Db, p.player_id, new_uuid_v4(1), "avatar_knight",
                                       timestamp)
           IN r.result = "Ok" /\ r.db.players # stdb_own_player_v1
\* C29: connect and disconnect of an identity that has a Session s succeed and
\* change only s.is_online (TRUE on connect, FALSE on disconnect) and one
\* timestamp of s's Player (signed_in_at := now on connect, last_signed_out_at :=
\* now on disconnect): s.player_id, the Player's other fields, the Public Cards,
\* every other Session and Player and the VIP rows are as before.
C29_ConnectDisconnectFrame ==
    \A s \in stdb_own_player_session_v1, now \in {timestamp, timestamp + TickMicros} :
        /\ \A random \in RandomV7 : \A display_name \in build_unique_display_name(Db) :
              LET r == sign_in_session(Db, s.session_id, random, display_name, now)
              IN /\ r.result = "Ok"
                 /\ r.db.sessions = (stdb_own_player_session_v1 \ {s})
                                       \cup {[s EXCEPT !.is_online = TRUE]}
                 /\ r.db.players = {IF p.player_id = s.player_id
                                    THEN [p EXCEPT !.signed_in_at = now] ELSE p
                                    : p \in stdb_own_player_v1}
                 /\ r.db.cards = stdb_pub_player_card_v1
                 /\ r.db.vips = stdb_own_vip_v1
                 /\ r.db.vip_seq = vip_id_seq
        /\ LET r == player_stdb_identity_disconnected(Db, s.session_id, now)
           IN /\ r.result = "Ok"
              /\ r.db.sessions = (stdb_own_player_session_v1 \ {s})
                                    \cup {[s EXCEPT !.is_online = FALSE]}
              /\ r.db.players = {IF p.player_id = s.player_id
                                 THEN [p EXCEPT !.last_signed_out_at = now] ELSE p
                                 : p \in stdb_own_player_v1}
              /\ r.db.cards = stdb_pub_player_card_v1
              /\ r.db.vips = stdb_own_vip_v1
              /\ r.db.vip_seq = vip_id_seq

\* Witness of C29: two sessions with different Players; one connected again
\* later and then disconnected, the other's Player, renamed through
\* update_profile, still has the timestamps of its creation.
C29_Witness ==
    \E s, t \in stdb_own_player_session_v1 :
        /\ s.player_id # t.player_id
        /\ ~s.is_online /\ t.is_online
        /\ \E p, q \in stdb_own_player_v1 :
              /\ p.player_id = s.player_id /\ q.player_id = t.player_id
              /\ p.signed_in_at > p.created_at
              /\ p.last_signed_out_at >= p.signed_in_at
              /\ q.avatar = "avatar_knight"
              /\ q.signed_in_at = q.created_at
              /\ q.last_signed_out_at = UNIX_EPOCH
C32_CallerEndIsPlayer ==
    \A v \in stdb_own_vip_v1 :
        \/ v.sender_id \in {p.player_id : p \in stdb_own_player_v1}
        \/ v.receiver_id \in {p.player_id : p \in stdb_own_player_v1}

\* C33: no two Session rows have the same player_id, a connect of an identity
\* without a Session adds a Player that did not exist, and no step changes the
\* player_id of a Session.
C33_SessionsOwnTheirPlayers ==
    /\ [](\A s, t \in stdb_own_player_session_v1 : s.player_id = t.player_id => s = t)
    /\ [](\A id \in Identities, random \in RandomV7 :
            \A display_name \in build_unique_display_name(Db) :
              LET r == sign_in_session(Db, id, random, display_name, timestamp)
              IN (~is_some(find_session(Db, id)) /\ r.result = "Ok")
                   => /\ Cardinality(r.db.players) = Cardinality(stdb_own_player_v1) + 1
                      /\ ~is_some(find_player(Db, unwrap(find_session(r.db, id)).player_id)))
    /\ [][\A s \in stdb_own_player_session_v1 :
            \E t \in stdb_own_player_session_v1' :
                t.session_id = s.session_id /\ t.player_id = s.player_id]_vars

\* What holds of C33: one Session row per identity, and no step removes a
\* Session or changes its player_id.
C33_PlayerIdNeverChanges ==
    /\ [](\A s, t \in stdb_own_player_session_v1 : s.session_id = t.session_id => s = t)
    /\ [][\A s \in stdb_own_player_session_v1 :
            \E t \in stdb_own_player_session_v1' :
                t.session_id = s.session_id /\ t.player_id = s.player_id]_vars
====
